---- MODULE Spec2Model ----
(***************************************************************************)
(* Model of streamlit_app.py: a Streamlit script that is re-executed from  *)
(* top to bottom on every user interaction (a "render pass"), with three   *)
(* fetch functions memoized by st.cache_data with a time-to-live.          *)
(***************************************************************************)
EXTENDS Integers, Sequences, FiniteSets, TLC

\* ------------------------------------------------------------------------
\* Bounds of the model
\* ------------------------------------------------------------------------
MaxPasses == 2       \* render passes started by a user interaction
MaxSelected == 1     \* length of the multiselect's selection
MaxStocks == 2       \* STOCK_MAP entries the user picks from
MaxRows == 2         \* rows of a historical response
MaxTicks == 2        \* clock advances
TickSeconds == 30    \* seconds of the short clock advance
MaxFlowRows == 11    \* rows of the largest fund-flow response

\* ------------------------------------------------------------------------
\* Program constants
\* ------------------------------------------------------------------------
\* STOCK_MAP codes, in the dictionary's order
StockOrder == <<"600519", "000568", "000858">>

STOCK_MAP == {StockOrder[i] : i \in 1..Len(StockOrder)}

\* a code the spot snapshot lists that STOCK_MAP does not
OtherCode == "000001"

QuotesTTL == 60

HistTTL == 300

FlowTTL == 300

DetailDays == 10

HeadRows == 10

\* values of the analysis_days slider that the user tries (range 7..365)
SliderDays == {DetailDays, 30}

TTLShort(fn) == QuotesTTL

TTL(fn) == IF fn = "get_realtime_quotes" THEN QuotesTTL
           ELSE IF fn = "get_historical_data" THEN HistTTL
           ELSE FlowTTL

\* ------------------------------------------------------------------------
\* State
\* ------------------------------------------------------------------------
VARIABLES
    clock,            \* wall clock, seconds
    cache,            \* st.cache_data: key -> [val, msgs, at]
    pc,               \* position of the script
    idx,              \* loop index inside a per-stock section
    selected_stocks,  \* multiselect
    analysis_days,    \* slider
    show_charts,      \* checkbox
    show_details,     \* checkbox
    button,           \* the refresh button was clicked for this pass
    out,              \* elements rendered by the current pass
    calls,            \* log of the fetch calls of the current pass
    pctOn,            \* row counts on which the percent change was computed
    fetched,          \* key -> last provider fetch since the last cache clear
    cleared,          \* the current pass follows a cache clear
    start,            \* the cache and the clock as the current pass found them
    passes,           \* user-initiated passes so far
    ticks,            \* clock advances so far
    rawVolume,        \* volume conversion: the raw volume
    klineShown,       \* volume conversion: tenths shown by the K-line metric
    detailShown,      \* volume conversion: tenths shown by the detail table
    vpc,              \* volume conversion: position
    remembered        \* an earlier finished pass, kept for comparison

vars == <<clock, cache, pc, idx, selected_stocks, analysis_days, show_charts,
          show_details, button, out, calls, pctOn, fetched, cleared, start,
          passes, ticks, rawVolume, klineShown, detailShown, vpc, remembered>>

volVars == <<rawVolume, klineShown, detailShown, vpc>>

widgetVars == <<selected_stocks, analysis_days, show_charts, show_details>>

\* ------------------------------------------------------------------------
\* Helpers
\* ------------------------------------------------------------------------
NoEntries == [k \in {} |-> 0]

Key(fn, code, days) == [fn |-> fn, code |-> code, days |-> days]

QuotesKey == Key("get_realtime_quotes", "", 0)

HistKey(code, days) == Key("get_historical_data", code, days)

FlowKey(code) == Key("get_money_flow", code, 0)

Min(a, b) == IF a < b THEN a ELSE b

Elem(kind, code, n) == [kind |-> kind, code |-> code, n |-> n]

Range(s) == {s[i] : i \in 1..Len(s)}

\* the codes the user picks from: the first entries of STOCK_MAP
Pickable == {StockOrder[i] : i \in 1..Min(MaxStocks, Len(StockOrder))}

\* sequences of distinct STOCK_MAP codes, the values of the multiselect
Selections ==
    {s \in UNION {[1..n -> Pickable] : n \in 0..MaxSelected} :
        \A i, j \in 1..Len(s) : i # j => s[i] # s[j]}

\* df.sort_values('date'): insertion of one row into a sorted table
RECURSIVE InsertSorted(_, _)
InsertSorted(d, s) ==
    IF s = <<>> THEN <<d>>
    ELSE IF d <= Head(s) THEN <<d>> \o s
    ELSE <<Head(s)>> \o InsertSorted(d, Tail(s))

RECURSIVE SortByDate(_)
SortByDate(s) ==
    IF s = <<>> THEN <<>> ELSE InsertSorted(Head(s), SortByDate(Tail(s)))

\* ------------------------------------------------------------------------
\* Provider responses
\* ------------------------------------------------------------------------
Raise == [raised |-> TRUE, rows |-> <<>>]

Rows(r) == [raised |-> FALSE, rows |-> r]

\* ak.stock_zh_a_spot_em(): the codes listed by the snapshot, or an exception
SpotResponses ==
    {Raise} \cup {Rows(c) : c \in SUBSET (Pickable \cup {OtherCode})}

\* ak.stock_zh_a_hist(): the bars of the last n days (dates 1..n) in any
\* order, or an exception
HistResponses ==
    {Raise} \cup
    {Rows(s) : s \in {t \in UNION {[1..n -> 1..n] : n \in 0..MaxRows} :
                        \A i, j \in 1..Len(t) : i # j => t[i] # t[j]}}

\* ak.stock_individual_fund_flow(): a number of rows, or an exception
FlowResponses == {Raise} \cup {Rows(n) : n \in {0, MaxFlowRows}}

\* ------------------------------------------------------------------------
\* The bodies of the three fetch functions: response -> [val, msgs]
\* ------------------------------------------------------------------------
\* get_realtime_quotes
QuotesBody(resp) ==
    IF resp.raised
    THEN [val |-> {}, msgs |-> <<Elem("error_quotes", "", 0)>>]
    ELSE [val |-> resp.rows \cap STOCK_MAP, msgs |-> <<>>]

\* get_historical_data
HistBody(code, resp) ==
    IF resp.raised
    THEN [val |-> <<>>, msgs |-> <<Elem("warning_hist", code, 0)>>]
    ELSE [val |-> IF resp.rows # <<>> THEN SortByDate(resp.rows) ELSE resp.rows,
          msgs |-> <<>>]

\* get_money_flow
FlowBody(code, resp) ==
    IF resp.raised
    THEN [val |-> 0, msgs |-> <<>>]
    ELSE [val |-> Min(resp.rows, HeadRows), msgs |-> <<>>]

\* ------------------------------------------------------------------------
\* st.cache_data
\* ------------------------------------------------------------------------
\* an entry is served while less than the TTL has elapsed since it was stored
Hit(key) ==
    /\ key \in DOMAIN cache
    /\ clock - cache[key].at < TTL(key.fn)

\* the result and the elements the body rendered are stored with the time
Store(c, key, res) ==
    [k \in DOMAIN c \cup {key} |->
        IF k = key THEN [val |-> res.val, msgs |-> res.msgs, at |-> clock]
        ELSE c[k]]

\* the record of one call: provider counts the provider calls it issued
CallRec(key, hit, raised, val, msgs) ==
    [key |-> key, hit |-> hit, raised |-> raised, val |-> val, msgs |-> msgs,
     at |-> clock, provider |-> IF hit THEN 0 ELSE 1]

\* a call served from the cache: the stored value and the stored elements
HitRec(key) == CallRec(key, TRUE, FALSE, cache[key].val, cache[key].msgs)

\* a call that runs the body on the provider's response
MissRec(key, resp, res) == CallRec(key, FALSE, resp.raised, res.val, res.msgs)

Remember(f, key, rec) ==
    [k \in DOMAIN f \cup {key} |-> IF k = key THEN rec ELSE f[k]]

\* a memoized call that does not keep the result of a failed provider call
MemoSkipFailures(key, rec) ==
    /\ calls' = Append(calls, rec)
    /\ IF rec.hit
       THEN UNCHANGED <<cache, fetched>>
       ELSE /\ cache' = IF rec.raised THEN cache ELSE Store(cache, key, rec)
            /\ fetched' = Remember(fetched, key, rec)

\* When a pass is run a second time from the same start, the provider is
\* taken to answer a call as it answered the same call of the first run; a
\* call the first run did not make, or served from the cache, is answered
\* freely.
Replays(key, resp, res) ==
    IF remembered = <<>> THEN TRUE
    ELSE LET r == remembered[1].calls
             i == Len(calls) + 1
         IN  IF i <= Len(r)
             THEN IF r[i].key = key /\ r[i].provider = 1
                  THEN /\ r[i].raised = resp.raised
                       /\ r[i].val = res.val
                  ELSE TRUE
             ELSE TRUE

\* the effect of one memoized call: a miss stores the result, whatever it is
Memo(key, rec) ==
    /\ calls' = Append(calls, rec)
    /\ IF rec.hit
       THEN UNCHANGED <<cache, fetched>>
       ELSE /\ cache' = Store(cache, key, rec)
            /\ fetched' = Remember(fetched, key, rec)

\* ------------------------------------------------------------------------
\* Initial state
\* ------------------------------------------------------------------------
\* A session between two interactions in which no unexpired entry is cached
\* (the server has just started, or every entry has outlived its TTL); the
\* sidebar holds any values the user can have set.
Init ==
    /\ clock = 0
    /\ cache = NoEntries
    /\ fetched = NoEntries
    /\ pc = "idle"
    /\ idx = 0
    /\ selected_stocks \in Selections
    /\ analysis_days \in SliderDays
    /\ show_charts \in BOOLEAN
    /\ show_details \in BOOLEAN
    /\ button = FALSE
    /\ out = <<>>
    /\ calls = <<>>
    /\ pctOn = <<>>
    /\ cleared = FALSE
    /\ start = [cache |-> NoEntries, fetched |-> NoEntries, clock |-> 0,
                ticks |-> 0]
    /\ passes = 0
    /\ ticks = 0
    /\ rawVolume = 0
    /\ klineShown = -1
    /\ detailShown = -1
    /\ vpc = "off"
    /\ remembered = <<>>

\* ------------------------------------------------------------------------
\* The script, top to bottom
\* ------------------------------------------------------------------------
\* a page that keeps the elements of the pass before
PageTopStale == out \o <<Elem("title", "", 0)>>

\* lines 11-20 and 111-123: every pass starts from an empty page, with the
\* page header and the sidebar
PageTop == <<Elem("title", "", 0)>>

\* the script without the branch on selected_stocks
TopBranchAlways(sel) ==
    [pc |-> "quotes", out |-> PageTop \o <<Elem("header_quotes", "", 0)>>]

\* line 126 and 288-289: the branch on selected_stocks
TopBranch(sel) ==
    IF sel # <<>>
    THEN [pc |-> "quotes", out |-> PageTop \o <<Elem("header_quotes", "", 0)>>]
    ELSE [pc |-> "footer", out |-> PageTop \o <<Elem("info_select", "", 0)>>]

\* one user interaction: one widget changes, or the button is clicked, or the
\* page is reloaded
OneChange(sel, days, charts, details, btn) ==
    \/ /\ sel # selected_stocks
       /\ \/ \E c \in Pickable : sel = Append(selected_stocks, c)
          \/ \E i \in 1..Len(selected_stocks) :
                sel = [j \in 1..(Len(selected_stocks) - 1) |->
                          IF j < i THEN selected_stocks[j]
                          ELSE selected_stocks[j + 1]]
       /\ days = analysis_days /\ charts = show_charts
       /\ details = show_details /\ btn = FALSE
    \/ /\ sel = selected_stocks /\ days # analysis_days
       /\ charts = show_charts /\ details = show_details /\ btn = FALSE
    \/ /\ sel = selected_stocks /\ days = analysis_days
       /\ charts # show_charts /\ details = show_details /\ btn = FALSE
    \/ /\ sel = selected_stocks /\ days = analysis_days
       /\ charts = show_charts /\ details # show_details /\ btn = FALSE
    \/ /\ sel = selected_stocks /\ days = analysis_days
       /\ charts = show_charts /\ details = show_details

\* what a pass starts from
Snapshot ==
    [cache |-> cache, fetched |-> fetched, clock |-> clock, ticks |-> ticks]

\* a user interaction starts a render pass with the widget values it leaves;
\* the button is on the page only when the pass before reached the footer
PassStart(sel, days, charts, details, btn) ==
    /\ pc \in {"idle", "crashed"}
    /\ btn => pc = "idle"
    /\ passes < MaxPasses
    /\ selected_stocks' = sel
    /\ analysis_days' = days
    /\ show_charts' = charts
    /\ show_details' = details
    /\ button' = btn
    /\ pc' = TopBranch(sel).pc
    /\ out' = TopBranch(sel).out
    /\ idx' = 1
    /\ calls' = <<>>
    /\ pctOn' = <<>>
    /\ cleared' = FALSE
    /\ passes' = passes + 1
    /\ UNCHANGED <<clock, cache, fetched, ticks, remembered>>
    /\ UNCHANGED volVars

StartPass ==
    /\ pc \in {"idle", "crashed"}
    /\ \E sel \in Selections, days \in SliderDays, charts \in BOOLEAN,
          details \in BOOLEAN, btn \in BOOLEAN :
        /\ OneChange(sel, days, charts, details, btn)
        /\ PassStart(sel, days, charts, details, btn)
    /\ UNCHANGED start

\* the same for a reload or a click on the button (the sidebar is left as it
\* is), keeping what the pass starts from for later comparison; the second
\* run of a pass repeats the interaction of the first
Reload ==
    /\ \E btn \in BOOLEAN :
          /\ remembered # <<>> => btn = remembered[1].button
          /\ PassStart(selected_stocks, analysis_days, show_charts,
                       show_details, btn)
    /\ start' = Snapshot

\* st.rerun(): the script starts over with the same widget values
RerunCore ==
    /\ pc = "rerun"
    /\ button' = FALSE
    /\ pc' = TopBranch(selected_stocks).pc
    /\ out' = TopBranch(selected_stocks).out
    /\ idx' = 1
    /\ calls' = <<>>
    /\ pctOn' = <<>>
    /\ UNCHANGED <<clock, cache, fetched, cleared, passes, ticks, remembered>>
    /\ UNCHANGED widgetVars
    /\ UNCHANGED volVars

Rerun == RerunCore /\ UNCHANGED start

\* the sections that follow the quote table
AfterQuotes == IF show_charts THEN "kline"
               ELSE IF show_details THEN "detail" ELSE "flow"

AfterKline == IF show_details THEN "detail" ELSE "flow"

\* lines 134-159: the quote table of the selected codes
QuoteTable(val) ==
    LET shown == SelectSeq(StockOrder,
                   LAMBDA c : c \in val /\ c \in Range(selected_stocks))
    IN  <<Elem("quote_table", "", Len(shown))>>
        \o [i \in 1..Len(shown) |-> Elem("quote_row", shown[i], 0)]

\* the quote section without the branch on realtime_data.empty
QuotesStepNoGate(rec) ==
    /\ Memo(QuotesKey, rec)
    /\ out' = out \o rec.msgs \o QuoteTable(rec.val)
    /\ pc' = AfterQuotes

\* lines 130-159 and 285-286
QuotesStep(rec) ==
    /\ Memo(QuotesKey, rec)
    /\ IF rec.val # {}
       THEN /\ out' = out \o rec.msgs \o QuoteTable(rec.val)
            /\ pc' = AfterQuotes
       ELSE /\ out' = out \o rec.msgs \o <<Elem("warning_quotes", "", 0)>>
            /\ pc' = "footer"

Quotes ==
    /\ pc = "quotes"
    /\ IF Hit(QuotesKey)
       THEN QuotesStep(HitRec(QuotesKey))
       ELSE \E resp \in SpotResponses :
               /\ Replays(QuotesKey, resp, QuotesBody(resp))
               /\ QuotesStep(MissRec(QuotesKey, resp, QuotesBody(resp)))
    /\ idx' = 1
    /\ UNCHANGED <<clock, button, pctOn, cleared, start, passes, ticks,
                   remembered>>
    /\ UNCHANGED widgetVars
    /\ UNCHANGED volVars

\* st.header of a per-stock section, rendered before the section's loop
SectionHeader(kind) == IF idx = 1 THEN <<Elem(kind, "", 0)>> ELSE <<>>

\* the loop "for stock_name in selected_stocks" moves on, or the section ends
Advance(next) ==
    IF idx < Len(selected_stocks)
    THEN idx' = idx + 1 /\ pc' = pc
    ELSE idx' = 1 /\ pc' = next

\* lines 170-233: the expander of one stock; iloc[-2] needs two rows
KLinePanel(code, val) ==
    <<Elem("kline_expander", code, 0), Elem("chart", code, Len(val)),
      Elem("metric_price", code, val[Len(val)])>>

KLineMetrics(code, val) ==
    <<Elem("metric_change", code, val[Len(val) - 1]),
      Elem("metric_volume", code, val[Len(val)]),
      Elem("metric_amount", code, val[Len(val)])>>

\* lines 165-233
KLineStep(code, rec) ==
    /\ Memo(HistKey(code, analysis_days), rec)
    /\ IF rec.val = <<>>
       THEN /\ out' = out \o SectionHeader("header_kline") \o rec.msgs
            /\ pctOn' = pctOn
            /\ Advance(AfterKline)
       ELSE IF Len(rec.val) < 2
       THEN \* hist_data.iloc[-2] raises IndexError: the pass aborts
            /\ out' = out \o SectionHeader("header_kline") \o rec.msgs
                          \o KLinePanel(code, rec.val)
                          \o <<Elem("exception", code, 0)>>
            /\ pctOn' = Append(pctOn, Len(rec.val))
            /\ pc' = "crashed"
            /\ idx' = idx
       ELSE /\ out' = out \o SectionHeader("header_kline") \o rec.msgs
                          \o KLinePanel(code, rec.val)
                          \o KLineMetrics(code, rec.val)
            /\ pctOn' = Append(pctOn, Len(rec.val))
            /\ Advance(AfterKline)

KLine ==
    /\ pc = "kline"
    /\ LET code == selected_stocks[idx]
           key == HistKey(code, analysis_days)
       IN  IF Hit(key)
           THEN KLineStep(code, HitRec(key))
           ELSE \E resp \in HistResponses :
                   /\ Replays(key, resp, HistBody(code, resp))
                   /\ KLineStep(code, MissRec(key, resp, HistBody(code, resp)))
    /\ UNCHANGED <<clock, button, cleared, start, passes, ticks, remembered>>
    /\ UNCHANGED widgetVars
    /\ UNCHANGED volVars

\* lines 239-265
DetailStep(code, rec) ==
    /\ Memo(HistKey(code, DetailDays), rec)
    /\ IF rec.val = <<>>
       THEN out' = out \o SectionHeader("header_detail") \o rec.msgs
       ELSE out' = out \o SectionHeader("header_detail") \o rec.msgs
                       \o <<Elem("detail_expander", code, 0),
                            Elem("detail_table", code, Len(rec.val))>>
    /\ Advance("flow")

Detail ==
    /\ pc = "detail"
    /\ LET code == selected_stocks[idx]
           key == HistKey(code, DetailDays)
       IN  IF Hit(key)
           THEN DetailStep(code, HitRec(key))
           ELSE \E resp \in HistResponses :
                   /\ Replays(key, resp, HistBody(code, resp))
                   /\ DetailStep(code, MissRec(key, resp, HistBody(code, resp)))
    /\ UNCHANGED <<clock, button, pctOn, cleared, start, passes, ticks,
                   remembered>>
    /\ UNCHANGED widgetVars
    /\ UNCHANGED volVars

\* lines 268-283
FlowStep(code, rec) ==
    /\ Memo(FlowKey(code), rec)
    /\ IF rec.val # 0
       THEN out' = out \o SectionHeader("header_flow") \o rec.msgs
                       \o <<Elem("subheader", code, 0),
                            Elem("metric_main_flow", code, 0),
                            Elem("metric_retail_flow", code, 0)>>
       ELSE out' = out \o SectionHeader("header_flow") \o rec.msgs
                       \o <<Elem("subheader", code, 0),
                            Elem("info_flow", code, 0)>>
    /\ Advance("footer")

MoneyFlow ==
    /\ pc = "flow"
    /\ LET code == selected_stocks[idx]
           key == FlowKey(code)
       IN  IF Hit(key)
           THEN FlowStep(code, HitRec(key))
           ELSE \E resp \in FlowResponses :
                   /\ Replays(key, resp, FlowBody(code, resp))
                   /\ FlowStep(code, MissRec(key, resp, FlowBody(code, resp)))
    /\ UNCHANGED <<clock, button, pctOn, cleared, start, passes, ticks,
                   remembered>>
    /\ UNCHANGED widgetVars
    /\ UNCHANGED volVars

\* lines 292-307: footer; the button clears every cache and reruns
Footer ==
    /\ pc = "footer"
    /\ IF button
       THEN /\ cache' = NoEntries
            /\ fetched' = NoEntries
            /\ cleared' = TRUE
            /\ out' = out \o <<Elem("caption_time", "", clock),
                               Elem("button", "", 0)>>
            /\ pc' = "rerun"
       ELSE /\ UNCHANGED <<cache, fetched, cleared>>
            /\ out' = out \o <<Elem("caption_time", "", clock),
                               Elem("button", "", 0),
                               Elem("disclaimer", "", 0)>>
            /\ pc' = "idle"
    /\ UNCHANGED <<clock, idx, button, calls, pctOn, start, passes, ticks,
                   remembered>>
    /\ UNCHANGED widgetVars
    /\ UNCHANGED volVars

\* wall-clock time passes: a short wait, or one that ends just before the
\* long TTL
Waits == {TickSeconds, HistTTL - TickSeconds}

\* a pass takes seconds: the long wait falls between two passes
Tick ==
    /\ ticks < MaxTicks
    /\ \E d \in Waits :
          /\ d > TickSeconds => pc \in {"idle", "crashed"}
          /\ clock' = clock + d
    /\ ticks' = ticks + 1
    /\ UNCHANGED <<cache, pc, idx, button, out, calls, pctOn, fetched, cleared,
                   start, passes, remembered>>
    /\ UNCHANGED widgetVars
    /\ UNCHANGED volVars

Next ==
    \/ StartPass
    \/ Rerun
    \/ Quotes
    \/ KLine
    \/ Detail
    \/ MoneyFlow
    \/ Footer
    \/ Tick

Spec == Init /\ [][Next]_vars

\* ------------------------------------------------------------------------
\* Two passes from the same start: a finished pass is kept with what it
\* started from, what it was given and what it produced, and the session is
\* run once more from where that pass started.  The sessions followed are
\* those in which the user reloads the page or clicks the button, up to the
\* cache clear of the button's handler (the pass that st.rerun() starts is a
\* pass from an empty cache like any other).
\* ------------------------------------------------------------------------
PassRecord ==
    [selected_stocks |-> selected_stocks, analysis_days |-> analysis_days,
     show_charts |-> show_charts, show_details |-> show_details,
     button |-> button, start |-> start, calls |-> calls,
     out |-> out, cache |-> cache, pc |-> pc]

\* the pass that has finished is kept and the session is put back where
\* that pass started, for one more pass from there
Rewind ==
    /\ pc \in {"idle", "rerun"}
    /\ out # <<>>
    /\ remembered = <<>>
    /\ remembered' = <<PassRecord>>
    /\ cache' = start.cache
    /\ fetched' = start.fetched
    /\ clock' = start.clock
    /\ ticks' = start.ticks
    /\ passes' = MaxPasses - 1
    /\ pc' = "idle"
    /\ idx' = 0
    /\ button' = FALSE
    /\ out' = <<>>
    /\ calls' = <<>>
    /\ pctOn' = <<>>
    /\ cleared' = FALSE
    /\ UNCHANGED start
    /\ UNCHANGED widgetVars
    /\ UNCHANGED volVars

\* the clock advances between two passes
TickIdle ==
    /\ pc \in {"idle", "crashed", "rerun"}
    /\ out # <<>> \/ remembered # <<>>
    /\ Tick

NextPure ==
    \/ Reload
    \/ Quotes
    \/ KLine
    \/ Detail
    \/ MoneyFlow
    \/ Footer
    \/ TickIdle
    \/ Rewind

SpecPure == Init /\ [][NextPure]_vars

\* ------------------------------------------------------------------------
\* Volume in "万手": raw volume / 10000 shown with one decimal
\* ------------------------------------------------------------------------
\* Binary64 numbers are kept as [bits, frac]: bits is the significand, most
\* significant bit first, and frac the number of its bits behind the binary
\* point, so the value is int(bits) / 2^frac.
MantissaBits == 53

TenThousand == 10000

RECURSIVE IntBits(_)
IntBits(n) == IF n = 0 THEN <<>> ELSE Append(IntBits(n \div 2), n % 2)

RECURSIVE BitsToInt(_)
BitsToInt(b) ==
    IF b = <<>> THEN 0
    ELSE 2 * BitsToInt(SubSeq(b, 1, Len(b) - 1)) + b[Len(b)]

AnyOne(b) == \E i \in DOMAIN b : b[i] = 1

\* bits + 1, one bit longer when every bit is 1
IncBits(b) ==
    IF \A i \in DOMAIN b : b[i] = 1
    THEN <<1>> \o [i \in DOMAIN b |-> 0]
    ELSE [i \in DOMAIN b |->
            IF \A k \in (i + 1)..Len(b) : b[k] = 1 THEN 1 - b[i] ELSE b[i]]

\* a + b for bit strings of the same length whose sum has that length
CarryInto(a, b, i) ==
    \E j \in (i + 1)..Len(a) :
        /\ a[j] + b[j] = 2
        /\ \A k \in (i + 1)..(j - 1) : a[k] + b[k] >= 1

AddBits(a, b) ==
    [i \in DOMAIN a |->
        (a[i] + b[i] + (IF CarryInto(a, b, i) THEN 1 ELSE 0)) % 2]

\* 2^i mod 10000, in steps of 13 bits
RECURSIVE ChunkPow(_)
ChunkPow(k) ==
    IF k = 0 THEN 1 ELSE (ChunkPow(k - 1) * (2 ^ 13)) % TenThousand

Pow2Mod(i) == (ChunkPow(i \div 13) * (2 ^ (i % 13))) % TenThousand

\* long division of r / 10000, r < 10000: the remainder after i bits behind
\* the binary point, and the i-th of these bits
FracRem(r, i) == (r * Pow2Mod(i)) % TenThousand

FracBit(r, i) == IF 2 * FracRem(r, i - 1) >= TenThousand THEN 1 ELSE 0

\* the zero bits between the binary point and the first one bit of r / 10000
LeadingZeros(r) ==
    (CHOOSE i \in 1..14 :
        FracBit(r, i) = 1 /\ \A j \in 1..(i - 1) : FracBit(r, j) = 0) - 1

\* round-to-nearest-even of a significand followed by the discarded part:
\* whether the discarded part calls for the next significand
RoundUp(bits, moreThanHalf, exactlyHalf) ==
    moreThanHalf \/ (exactlyHalf /\ bits # <<>> /\ bits[Len(bits)] = 1)

\* volume / 10000 as a binary64 number (true division of an integer)
Quotient(v) ==
    LET ip == IntBits(v \div TenThousand)
        r == v % TenThousand
        zeros == IF ip # <<>> \/ r = 0 THEN 0 ELSE LeadingZeros(r)
        n == MantissaBits - Len(ip)
        bits == ip \o [j \in 1..n |-> FracBit(r, zeros + j)]
        rem == FracRem(r, zeros + n)
        up == RoundUp(bits, 2 * rem > TenThousand, 2 * rem = TenThousand)
    IN  [bits |-> IF up THEN IncBits(bits) ELSE bits, frac |-> zeros + n]

\* x * 10, exactly: 8x + 2x
TimesTen(x) ==
    LET a == <<0>> \o x.bits \o <<0, 0, 0>>
        b == <<0, 0, 0>> \o x.bits \o <<0>>
    IN  [bits |-> AddBits(a, b), frac |-> x.frac]

RECURSIVE StripZeros(_)
StripZeros(b) ==
    IF b # <<>> /\ b[1] = 0 THEN StripZeros(Tail(b)) ELSE b

\* the binary64 number nearest to x (ties to even): the result of a
\* floating-point operation whose exact result is x
RoundToDouble(x) ==
    LET b == StripZeros(x.bits)
    IN  IF Len(b) <= MantissaBits THEN [bits |-> b, frac |-> x.frac]
        ELSE LET keep == SubSeq(b, 1, MantissaBits)
                 drop == SubSeq(b, MantissaBits + 1, Len(b))
                 rest == SubSeq(drop, 2, Len(drop))
                 up == RoundUp(keep, drop[1] = 1 /\ AnyOne(rest),
                               drop[1] = 1 /\ ~AnyOne(rest))
             IN  [bits |-> IF up THEN IncBits(keep) ELSE keep,
                  frac |-> x.frac - Len(drop)]

\* the integer nearest to x (ties to even), for x with bits behind the point
RoundHalfEven(x) ==
    LET pad == IF x.frac > Len(x.bits)
               THEN [i \in 1..(x.frac - Len(x.bits)) |-> 0] \o x.bits
               ELSE x.bits
        n == Len(pad) - x.frac
        int == SubSeq(pad, 1, n)
        fr == SubSeq(pad, n + 1, Len(pad))
        rest == SubSeq(fr, 2, Len(fr))
        up == /\ fr # <<>>
              /\ fr[1] = 1
              /\ (AnyOne(rest) \/ (int # <<>> /\ int[Len(int)] = 1))
    IN  BitsToInt(int) + (IF up THEN 1 ELSE 0)

\* line 231: f"{latest['volume']/10000:.1f}" - the decimal with one digit
\* nearest to the binary64 quotient; the result in tenths
KLineTenths(v) == RoundHalfEven(TimesTen(Quotient(v)))

\* line 248: (volume / 10000).round(1).astype(str) - numpy rounds as
\* rint(x * 10) / 10, the product being a binary64 number; in tenths
DetailTenths(v) == RoundHalfEven(RoundToDouble(TimesTen(Quotient(v))))

\* the raw volumes tried
VolumeStep == 500

MaxVolumeSteps == 30

Volumes == {k * VolumeStep : k \in 0..MaxVolumeSteps}

InitVolume ==
    /\ clock = 0
    /\ cache = NoEntries
    /\ fetched = NoEntries
    /\ pc = "idle"
    /\ idx = 0
    /\ selected_stocks = <<>>
    /\ analysis_days = 30
    /\ show_charts = TRUE
    /\ show_details = TRUE
    /\ button = FALSE
    /\ out = <<>>
    /\ calls = <<>>
    /\ pctOn = <<>>
    /\ cleared = FALSE
    /\ start = [cache |-> NoEntries, fetched |-> NoEntries, clock |-> 0,
                ticks |-> 0]
    /\ passes = 0
    /\ ticks = 0
    /\ rawVolume \in Volumes
    /\ klineShown = -1
    /\ detailShown = -1
    /\ vpc = "raw"
    /\ remembered = <<>>

mainVars == <<clock, cache, pc, idx, selected_stocks, analysis_days,
              show_charts, show_details, button, out, calls, pctOn, fetched,
              cleared, start, passes, ticks, remembered>>

\* the K-line metric shows the volume of the latest bar
KLineVolume ==
    /\ vpc = "raw"
    /\ klineShown = -1
    /\ klineShown' = KLineTenths(rawVolume)
    /\ UNCHANGED <<rawVolume, detailShown, vpc>>
    /\ UNCHANGED mainVars

\* the detail table shows the volume of the same bar
DetailVolume ==
    /\ vpc = "raw"
    /\ detailShown = -1
    /\ detailShown' = DetailTenths(rawVolume)
    /\ UNCHANGED <<rawVolume, klineShown, vpc>>
    /\ UNCHANGED mainVars

NextVolume == KLineVolume \/ DetailVolume

SpecVolume == InitVolume /\ [][NextVolume]_vars

\* ------------------------------------------------------------------------
\* Vocabulary of the properties
\* ------------------------------------------------------------------------
\* the elements of the main area: not the page top, not the footer
MainArea(o) ==
    SelectSeq(o, LAMBDA e :
        e.kind \notin {"title", "caption_time", "button", "disclaimer"})

Level(kind) ==
    IF kind = "error_quotes" THEN "error"
    ELSE IF kind \in {"warning_quotes", "warning_hist"} THEN "warning"
    ELSE IF kind \in {"info_flow", "info_select"} THEN "info"
    ELSE "content"

\* the notices that speak of a fetch function
NoticeKinds(fn) ==
    IF fn = "get_realtime_quotes" THEN {"error_quotes", "warning_quotes"}
    ELSE IF fn = "get_historical_data" THEN {"warning_hist"}
    ELSE {"info_flow"}

\* a warning (or an error notice) about the call's data is on the page
WarningShownFor(key) ==
    \E j \in DOMAIN out :
        /\ out[j].kind \in NoticeKinds(key.fn)
        /\ out[j].code = key.code
        /\ Level(out[j].kind) \in {"warning", "error"}

\* a warning about one identifier, or about the quotes as a whole
WarningAbout(code) ==
    \E j \in DOMAIN out :
        /\ Level(out[j].kind) \in {"warning", "error"}
        /\ out[j].code \in {code, ""}

EmptyVal(rec) ==
    IF rec.key.fn = "get_realtime_quotes" THEN rec.val = {}
    ELSE IF rec.key.fn = "get_historical_data" THEN rec.val = <<>>
    ELSE rec.val = 0

\* the windows the specification states: 60 s for quotes, 300 s otherwise
StatedWindow(fn) == IF fn = "get_realtime_quotes" THEN 60 ELSE 300

LastCall == calls[Len(calls)]

\* the step is a fetch call; the call's record is the last of calls'
IsCall == Len(calls') = Len(calls) + 1

NewCall == calls'[Len(calls')]

\* the pass ran to the footer
PassComplete == pc \in {"idle", "rerun"} /\ out # <<>>

\* ------------------------------------------------------------------------
\* Properties
\* ------------------------------------------------------------------------
\* C1: a call with the arguments of an earlier call, made less than the
\* function's TTL after that call fetched and with no cache clear in between,
\* returns the result that call returned and asks the provider nothing.
C1_Step ==
    IsCall =>
        LET rec == NewCall
        IN  (/\ rec.key \in DOMAIN fetched
             /\ rec.at - fetched[rec.key].at < StatedWindow(rec.key.fn))
            => (rec.provider = 0 /\ rec.val = fetched[rec.key].val)

C1_RepeatWithinTTL == [][C1_Step]_vars

\* a historical call is served from an entry older than the quotes' TTL
C1_Witness ==
    /\ calls # <<>>
    /\ LastCall.key.fn = "get_historical_data"
    /\ LastCall.key \in DOMAIN fetched
    /\ LastCall.provider = 0
    /\ LastCall.at - fetched[LastCall.key].at >= QuotesTTL
    /\ LastCall.val # <<>>

\* C2 (as stated): whenever the provider call of a fetch raises, the call
\* returns an empty table, a warning is shown, the provider is asked once
\* and the pass is not aborted.
C2_Original ==
    \A i \in DOMAIN calls :
        calls[i].raised =>
            /\ EmptyVal(calls[i])
            /\ calls[i].provider = 1
            /\ WarningShownFor(calls[i].key)
            /\ pc # "crashed"

\* C3 (as stated): the day-over-day change is never computed on a table of
\* fewer than two rows, and the pass does not end in an unhandled failure.
C3_Original ==
    /\ \A i \in DOMAIN pctOn : pctOn[i] >= 2
    /\ pc # "crashed"

\* C4: with nothing selected the main area holds the prompt alone and the
\* pass makes no fetch call, whatever the other widgets and the cache hold.
C4_NoSelectionNoCalls ==
    (selected_stocks = <<>> /\ out # <<>>) =>
        /\ calls = <<>>
        /\ MainArea(out) = <<Elem("info_select", "", 0)>>

\* a pass with nothing selected has finished on a cache that holds entries
C4_Witness ==
    /\ selected_stocks = <<>>
    /\ pc = "idle"
    /\ out # <<>>
    /\ show_charts /\ show_details
    /\ DOMAIN cache # {}

\* C5 (as stated): for a selected identifier the provider's response lacks
\* (no row in the snapshot, or an empty historical or fund-flow response
\* without an exception) the tables are empty, a warning is shown for it,
\* and handling the response is not an unhandled failure.
C5_Missing(rec, code) ==
    /\ ~rec.raised
    /\ IF rec.key.fn = "get_realtime_quotes" THEN code \notin rec.val
       ELSE rec.key.code = code /\ EmptyVal(rec)

C5_TablesEmpty(rec, code) ==
    \A j \in DOMAIN out : out[j].code = code =>
        IF rec.key.fn = "get_realtime_quotes" THEN out[j].kind # "quote_row"
        ELSE IF rec.key.fn = "get_money_flow"
        THEN out[j].kind \notin {"metric_main_flow", "metric_retail_flow"}
        ELSE (rec.key.days = DetailDays => out[j].kind # "detail_table")
             /\ (rec.key.days = analysis_days => out[j].kind # "chart")

C5_Original ==
    /\ PassComplete =>
          \A i \in DOMAIN calls : \A c \in Range(selected_stocks) :
              C5_Missing(calls[i], c) =>
                  C5_TablesEmpty(calls[i], c) /\ WarningAbout(c)
    /\ (pc = "crashed" /\ calls # <<>>) =>
          ~C5_Missing(LastCall, selected_stocks[idx])

\* C6 (as stated): a pass in which the button was pressed clears the cache
\* and reruns, and in the pass that follows every fetch call asks the
\* provider.
C6_Original ==
    /\ button => pc # "crashed"
    /\ (cleared /\ pc # "rerun") =>
          \A i \in DOMAIN calls : calls[i].provider = 1

\* C7 (as stated): each place shows raw volume / 10000 rounded to one
\* decimal, and both places show the same value for the same raw volume.
C7_Nearest(tenths) ==
    /\ 1000 * tenths - rawVolume <= 500
    /\ rawVolume - 1000 * tenths <= 500

C7_Original ==
    /\ klineShown # -1 => C7_Nearest(klineShown)
    /\ detailShown # -1 => C7_Nearest(detailShown)
    /\ (klineShown # -1 /\ detailShown # -1) => klineShown = detailShown

\* C8 (as stated): two passes started with the same widget values and the
\* same cache contents produce the same page and the same cache contents.
C8_FooterTime(o) ==
    SelectSeq(o, LAMBDA e : e.kind = "caption_time")[1].n

C8_SameStart(r) ==
    /\ r.selected_stocks = selected_stocks
    /\ r.analysis_days = analysis_days
    /\ r.show_charts = show_charts
    /\ r.show_details = show_details
    /\ r.button = button
    /\ r.start.cache = start.cache

C8_SameResult(r) == r.out = out /\ r.cache = cache /\ r.pc = pc

C8_SameClockAndAnswers(r) ==
    /\ C8_FooterTime(r.out) = C8_FooterTime(out)
    /\ Len(r.calls) = Len(calls)
    /\ \A i \in DOMAIN calls :
          /\ r.calls[i].key = calls[i].key
          /\ r.calls[i].at = calls[i].at
          /\ (r.calls[i].provider = 1 /\ calls[i].provider = 1) =>
                /\ r.calls[i].raised = calls[i].raised
                /\ r.calls[i].val = calls[i].val

C9_EmptyQuotesGate ==
    (calls # <<>> /\ calls[1].val = {}) =>
        /\ Len(calls) = 1
        /\ MainArea(out) = <<Elem("header_quotes", "", 0)>> \o calls[1].msgs
                              \o <<Elem("warning_quotes", "", 0)>>

\* the snapshot listed no watched code; the pass finished with all panels on
C9_Witness ==
    /\ calls # <<>>
    /\ calls[1].val = {}
    /\ ~calls[1].raised
    /\ selected_stocks # <<>>
    /\ show_charts /\ show_details
    /\ pc = "idle"

\* C10: after a provider call raised, a call with the same arguments made
\* before the TTL expires and without a cache clear returns the empty table
\* and asks the provider nothing.
C10_Step ==
    IsCall =>
        LET rec == NewCall
        IN  (/\ rec.key \in DOMAIN fetched
             /\ fetched[rec.key].raised
             /\ rec.at - fetched[rec.key].at < StatedWindow(rec.key.fn))
            => (rec.provider = 0 /\ EmptyVal(rec) /\ ~rec.raised)

C10_FailureMemoized == [][C10_Step]_vars

\* a fund-flow call is served the empty result of a failed call made earlier
C10_Witness ==
    /\ calls # <<>>
    /\ LastCall.key.fn = "get_money_flow"
    /\ LastCall.key \in DOMAIN fetched
    /\ fetched[LastCall.key].raised
    /\ LastCall.provider = 0
    /\ LastCall.at > fetched[LastCall.key].at

====
